---- MODULE Spec2Model ----
(***************************************************************************)
(* Family membership, member counters, posts and family requests of the   *)
(* church-community application, modelled from the data-access layer      *)
(* (lib/firestore, lib/initializeData).  The persistent store is a set of  *)
(* document collections; every data-access function is one action that    *)
(* performs all store calls of the function in program order.  A store     *)
(* call may reject; the parameter fl of an action is the position of the   *)
(* store call of the function that rejects (1 = its first store call,      *)
(* 0 = none rejects).                                                      *)
(***************************************************************************)
EXTENDS Integers, Sequences, FiniteSets, TLC

\* ---------------------------------------------------------------- bounds
MaxUsers == 2            \* user ids 1..MaxUsers
MaxMovers == 1           \* users the sequential membership operations are run for
MaxFamilies == 2         \* families the membership operations work on
MaxCount == 1            \* memberCount stays within -MaxCount..MaxCount
MaxNotifs == 2           \* notification documents alive at a time
MaxPosts == 1            \* posts created in a run
MaxRequests == 2         \* family requests created in a run
MaxAdminRequests == 1    \* admin requests created in a run
MaxMedia == 2            \* media records created in a run
MaxClients == 2          \* clients with an operation on a post in flight
MaxComments == 1         \* comment ids, and comments a post holds at a time
MaxLikers == 1           \* users whose operations on a post run at the same time
MaxThread == 3           \* comments a post holds at a time, added one call after the other
MaxSubscriptions == 2    \* profile listeners that exist at a time
MaxEvents == 2           \* auth-state changes not yet handed to the listener

\* ------------------------------------------------------------- constants
NullId == 0              \* familyId: null
EmptyId == 0 - 1         \* familyId: '' (the value signup stores)
AbsentId == 0 - 2        \* a field the caller's data does not carry

UserIds == 1..MaxUsers
Movers == 1..MaxMovers
\* the seed families of initializeFamilies that are modelled: all but the last of
\* the families the membership operations work on
NumSeedFamilies == MaxFamilies - 1
SeedIds == 1..NumSeedFamilies
\* the ids of the 'families' collection: the seeds, then the ids addDoc hands out
FamilyIds == 1..(MaxFamilies + 1)
PostIds == 1..MaxPosts
RequestIds == 1..MaxRequests
AdminRequestIds == 1..MaxAdminRequests
MediaIds == 1..MaxMedia
Clients == 1..MaxClients
\* the ids of comments: the values Date.now() of the commenting client takes
CommentIds == 1..MaxComments
Likers == 1..MaxLikers

Roles == {"member", "admin", "super_admin"}
\* the roles the signup form passes to createUserProfile
SignupRoles == {"member", "admin"}

VARIABLES
  users,          \* collection 'users': id -> document
  families,       \* collection 'families': id -> document
  nextFamilyId,   \* the next id addDoc hands out in 'families'
  notifications,  \* collection 'notifications': the number of its documents
  posts,          \* collection 'posts': id -> document
  nextPostId,     \* the next id addDoc hands out in 'posts'
  familyRequests, \* collection 'familyRequests': id -> document
  nextRequestId,  \* the next id addDoc hands out in 'familyRequests'
  calls,          \* the updateUserFamily call in flight for each user: position and locals
  base,           \* the families as they were before the concurrent calls started
  actor,          \* the signed-in user on whose behalf the last operation ran
  clean,          \* no store call has rejected and no operation has thrown so far
  last,           \* the operation that ran last: its arguments, what it read, how it ended
  joins,          \* the store before each of the latest consecutive updateUserFamily calls
  watch,          \* the operations whose arguments last records
  adminRequests,  \* collection 'adminRequests': id -> document
  media,          \* collection 'media': id -> document
  blobs,          \* the storage objects, named by the media record they back
  config,         \* document 'config/church'
  accounts,       \* the identity accounts, named by their uid
  edits,          \* the operation on a post in flight for each client: position and locals
  members,        \* the member rows the admin dashboard has loaded: id -> row
  session         \* AuthProvider: the auth state, its state hooks and its subscriptions

vars == <<users, families, nextFamilyId, notifications, posts, nextPostId,
          familyRequests, nextRequestId, calls, base, actor, clean, last, joins, watch,
          adminRequests, media, blobs, config, accounts, edits, members, session>>

\* ------------------------------------------------------------- documents
NoUser == [exists |-> FALSE, role |-> "none", familyId |-> NullId]
NoFamily == [exists |-> FALSE, memberCount |-> 0]
NoPost == [exists |-> FALSE, familyId |-> NullId, authorId |-> 0,
           likes |-> <<>>, comments |-> <<>>]
NoRequest == [exists |-> FALSE, status |-> "none"]
NoAdminRequest == [exists |-> FALSE, userId |-> 0, status |-> "none", reviewedBy |-> 0]
NoMedia == [exists |-> FALSE, familyId |-> NullId, filePath |-> FALSE]
NoConfig == [exists |-> FALSE, superAdminId |-> 0]

\* JavaScript truthiness of a familyId: null and '' are falsy
Truthy(fid) == fid >= 1

\* number of User records whose familyId equals f
MembersOf(us, f) == Cardinality({u \in UserIds : us[u].exists /\ us[u].familyId = f})

\* the caps that keep the counters of the model finite
InBounds(fams, ns) ==
  /\ \A f \in FamilyIds : fams[f].memberCount \in (0 - MaxCount)..MaxCount
  /\ ns <= MaxNotifs

\* a member row of the admin dashboard: the role is the one read when the rows were
\* loaded
NoRow == [shown |-> FALSE, role |-> "none"]
Idle == [pc |-> "idle", newFamilyId |-> NullId, prevFamilyId |-> NullId]

\* AuthProvider before the first auth event: nobody signed in, currentUser undefined,
\* userData null (id 0), no profile subscription (subs[h] = 0: handle h is not listening)
NoSession == [user |-> NullId, events |-> <<NullId>>, currentUser |-> AbsentId,
              userData |-> [id |-> NullId, role |-> "none"],
              unsubscribeFromUserProfile |-> 0,
              subs |-> [h \in 1..MaxSubscriptions |-> NullId]]

\* no operation on a post in flight
NoEdit == [pc |-> "idle", op |-> "none", postId |-> 0, who |-> 0, commentId |-> 0,
           read |-> <<>>, seen |-> {}, wrote |-> <<>>, turn |-> 0]

\* the collections and the state the membership operations never touch, empty
RestEmpty ==
  /\ adminRequests = [r \in AdminRequestIds |-> NoAdminRequest]
  /\ media = [m \in MediaIds |-> NoMedia]
  /\ blobs = {}
  /\ config = NoConfig
  /\ accounts = {}
  /\ edits = [c \in Clients |-> NoEdit]
  /\ members = [m \in UserIds |-> NoRow]
  /\ session = NoSession

AdminRequestsUnchanged == UNCHANGED adminRequests
MediaUnchanged == UNCHANGED <<media, blobs>>
SetupUnchanged == UNCHANGED <<config, accounts>>
RestUnchanged ==
  AdminRequestsUnchanged /\ MediaUnchanged /\ SetupUnchanged /\ UNCHANGED <<edits, members, session>>

NoOp == [op |-> "none", uid |-> 0, arg |-> NullId, prev |-> NullId,
         failed |-> FALSE, threw |-> "none", decision |-> "none", rejected |-> 0]

\* op ran for user uid with argument arg (a family, post or request id), read prev
\* as the user's family, had a store call rejected (failed) and threw (threw);
\* decision is the status a review sets, rejected the call of updateUserFamily that the
\* store rejected
Done(op, uid, arg, prev, failed, threw) ==
  IF op \in watch
  THEN [op |-> op, uid |-> uid, arg |-> arg, prev |-> prev, failed |-> failed,
        threw |-> threw, decision |-> "none", rejected |-> 0]
  ELSE [op |-> "other", uid |-> 0, arg |-> NullId, prev |-> NullId, failed |-> failed,
        threw |-> threw, decision |-> "none", rejected |-> 0]

\* ------------------------------------------------------------ store calls
\* updateDoc(famRef, { memberCount: increment(d) }): rejects when the document is missing
IncrementOk(fams, f, rejects) == fams[f].exists /\ ~rejects
\* a read-modify-write in place of increment(d): the counter as it was read before
\* the calls in flight started, plus d
IncrementStale(fams, f, d, rejects) ==
  IF IncrementOk(fams, f, rejects)
  THEN [fams EXCEPT ![f].memberCount = base[f].memberCount + d] ELSE fams
Increment(fams, f, d, rejects) ==
  IF IncrementOk(fams, f, rejects) THEN [fams EXCEPT ![f].memberCount = @ + d] ELSE fams

\* no notification is added
CreateNotificationSkipped(ns, f, rejects) == ns
\* createNotification: addDoc to 'notifications'
CreateNotification(ns, f, rejects) == IF rejects THEN ns ELSE ns + 1

\* the empty store of a new deployment
EmptyStore ==
  /\ users = [u \in UserIds |-> NoUser]
  /\ families = [f \in FamilyIds |-> NoFamily]
  /\ nextFamilyId = NumSeedFamilies + 1
  /\ notifications = 0
  /\ posts = [p \in PostIds |-> NoPost]
  /\ nextPostId = 1
  /\ familyRequests = [r \in RequestIds |-> NoRequest]
  /\ nextRequestId = 1
  /\ calls = [u \in UserIds |-> Idle]
  /\ base = families
  /\ actor = 0
  /\ clean = TRUE
  /\ last = NoOp
  /\ joins = <<>>
  /\ RestEmpty

AllOps == {"createUserProfile", "updateUserProfile", "updateUserFamily", "deleteUser",
           "promoteToAdmin", "demoteFromAdmin", "createFamily", "deleteFamily",
           "initializeFamilies", "deleteNotification", "createPost", "deletePost",
           "createFamilyRequest", "approveFamilyRequest", "rejectFamilyRequest",
           "createAdminRequest", "reviewAdminRequest", "initializeApp",
           "likePost", "unlikePost", "addComment", "deleteComment",
           "uploadMedia", "deleteMedia", "handlePromoteUser", "handleDemoteUser",
           "handleRemoveMember"}

Init == EmptyStore /\ watch = AllOps

ContentUnchanged == UNCHANGED <<posts, nextPostId>>
RequestsUnchanged == UNCHANGED <<familyRequests, nextRequestId>>
MembershipUnchanged == UNCHANGED <<users, families, nextFamilyId, notifications>>

\* ------------------------------------------------------------------ users
\* createUserProfile(userId, userData): store calls 1 setDoc(user),
\* 2 updateDoc(family, increment(1)), 3 createNotification
createUserProfile(userId, role, familyId, fl) ==
  LET payloadRole == IF role = "none" THEN "member" ELSE role
      incOk == IncrementOk(families, familyId, fl = 2)
  IN
  /\ IF fl = 1
     THEN /\ UNCHANGED <<users, families, notifications>>
          /\ last' = Done("createUserProfile", userId, familyId, NullId, TRUE, "store-error")
     ELSE /\ users' = [users EXCEPT ![userId] =
                         [exists |-> TRUE, role |-> payloadRole, familyId |-> familyId]]
          /\ IF Truthy(familyId)
             THEN /\ families' = Increment(families, familyId, 1, fl = 2)
                  /\ notifications' = CreateNotification(notifications, familyId, fl = 3)
                  /\ last' = Done("createUserProfile", userId, familyId, NullId,
                                  ~incOk \/ fl = 3, "none")
             ELSE /\ UNCHANGED <<families, notifications>>
                  /\ last' = Done("createUserProfile", userId, familyId, NullId, FALSE, "none")
  /\ UNCHANGED nextFamilyId
  /\ ContentUnchanged /\ RequestsUnchanged

\* a familyId a caller can name: a seed id or an id the store has already handed out
KnownFamilyIds == {f \in FamilyIds : f < nextFamilyId}

\* updateUserProfile(userId, updates): store call 1 updateDoc(user), which rejects
\* when the document is missing.  A role of "none" or a familyId of AbsentId is a
\* field the updates do not carry.
updateUserProfile(userId, role, familyId, fl) ==
  LET ok == users[userId].exists /\ fl # 1 IN
  /\ users' = IF ok
              THEN [users EXCEPT ![userId] =
                      [exists |-> TRUE,
                       role |-> IF role = "none" THEN @.role ELSE role,
                       familyId |-> IF familyId = AbsentId THEN @.familyId ELSE familyId]]
              ELSE users
  /\ last' = Done("updateUserProfile", userId, familyId, NullId, ~ok,
                  IF ok THEN "none" ELSE IF fl = 1 THEN "store-error" ELSE "not-found")
  /\ UNCHANGED <<families, nextFamilyId, notifications>>
  /\ ContentUnchanged /\ RequestsUnchanged

\* the conditions under which updateUserFamily updates the counters of the previous
\* and of the new family follow.
\* The counter of the previous family updated without comparing it with the new one:
DecDueUnchecked(prevFamilyId, newFamilyId) == Truthy(prevFamilyId)
DecDue(prevFamilyId, newFamilyId) == Truthy(prevFamilyId) /\ prevFamilyId # newFamilyId
\* the counter of the new family updated without comparing it with the previous one
IncDueUnchecked(prevFamilyId, newFamilyId) == Truthy(newFamilyId)
IncDue(prevFamilyId, newFamilyId) == Truthy(newFamilyId) /\ prevFamilyId # newFamilyId

\* updateUserFamily(userId, newFamilyId): store calls 1 getDoc(user), 2 updateDoc(user),
\* 3 updateDoc(previous family, increment(-1)), 4 updateDoc(new family, increment(1)),
\* 5 createNotification
updateUserFamily(userId, newFamilyId, fl) ==
  LET prevFamilyId == users[userId].familyId
      decDue == DecDue(prevFamilyId, newFamilyId)
      incDue == IncDue(prevFamilyId, newFamilyId)
      decOk == decDue => IncrementOk(families, prevFamilyId, fl = 3)
      incOk == incDue => IncrementOk(families, newFamilyId, fl = 4)
      afterDec == IF decDue THEN Increment(families, prevFamilyId, 0 - 1, fl = 3)
                  ELSE families
      afterInc == IF incDue THEN Increment(afterDec, newFamilyId, 1, fl = 4)
                  ELSE afterDec
      failed == ~decOk \/ ~incOk \/ (incDue /\ fl = 5)
      threw == IF fl = 1 THEN "store-error"
               ELSE IF ~users[userId].exists THEN "not-found"
               ELSE IF fl = 2 THEN "store-error" ELSE "none"
  IN
  /\ IF threw # "none"
     THEN /\ UNCHANGED <<users, families, notifications>>
          /\ last' = [Done("updateUserFamily", userId, newFamilyId, NullId, TRUE, threw)
                        EXCEPT !.rejected = fl]
     ELSE /\ users' = [users EXCEPT ![userId].familyId = newFamilyId]
          /\ families' = afterInc
          /\ notifications' = IF incDue
                              THEN CreateNotification(notifications, newFamilyId, fl = 5)
                              ELSE notifications
          /\ last' = [Done("updateUserFamily", userId, newFamilyId, prevFamilyId,
                           failed, "none") EXCEPT !.rejected = fl]
  /\ UNCHANGED nextFamilyId
  /\ ContentUnchanged /\ RequestsUnchanged

\* removeMemberFromFamily(userId) is updateUserFamily(userId, null)
removeMemberFromFamily(userId, fl) == updateUserFamily(userId, NullId, fl)

\* the record removed without its family's counter being touched
LeaveFamilyKeepCount(fams, fam, rejects) == fams
\* the counter update of deleteUser: if (u?.familyId) updateDoc(family, increment(-1))
LeaveFamily(fams, fam, rejects) ==
  IF Truthy(fam) THEN Increment(fams, fam, 0 - 1, rejects) ELSE fams

\* deleteUser(userId): store calls 1 getDoc(user), 2 updateDoc(family, increment(-1)),
\* 3 deleteDoc(user)
deleteUser(userId, fl) ==
  LET fam == IF users[userId].exists THEN users[userId].familyId ELSE NullId
      decOk == Truthy(fam) => IncrementOk(families, fam, fl = 2)
      afterDec == LeaveFamily(families, fam, fl = 2)
  IN
  /\ IF fl = 1
     THEN /\ UNCHANGED <<users, families>>
          /\ last' = Done("deleteUser", userId, NullId, NullId, TRUE, "store-error")
     ELSE /\ families' = afterDec
          /\ users' = IF fl = 3 THEN users ELSE [users EXCEPT ![userId] = NoUser]
          /\ last' = Done("deleteUser", userId, NullId, fam, ~decOk \/ fl = 3,
                          IF fl = 3 THEN "store-error" ELSE "none")
  /\ UNCHANGED <<nextFamilyId, notifications>>
  /\ ContentUnchanged /\ RequestsUnchanged

\* the role written only over the role 'member'
SetRoleOfMember(op, userId, role, fl) ==
  LET ok == users[userId].exists /\ fl # 1 IN
  /\ users' = IF ok /\ users[userId].role = "member"
              THEN [users EXCEPT ![userId].role = role] ELSE users
  /\ last' = Done(op, userId, NullId, NullId, ~ok,
                  IF ok THEN "none" ELSE IF fl = 1 THEN "store-error" ELSE "not-found")
  /\ UNCHANGED <<families, nextFamilyId, notifications>>
  /\ ContentUnchanged /\ RequestsUnchanged
\* promoteToAdmin / demoteFromAdmin: store call 1 updateDoc(user, { role })
SetRole(op, userId, role, fl) ==
  LET ok == users[userId].exists /\ fl # 1 IN
  /\ users' = IF ok THEN [users EXCEPT ![userId].role = role] ELSE users
  /\ last' = Done(op, userId, NullId, NullId, ~ok,
                  IF ok THEN "none" ELSE IF fl = 1 THEN "store-error" ELSE "not-found")
  /\ UNCHANGED <<families, nextFamilyId, notifications>>
  /\ ContentUnchanged /\ RequestsUnchanged

promoteToAdmin(userId, fl) == SetRole("promoteToAdmin", userId, "admin", fl)
demoteFromAdmin(userId, fl) == SetRole("demoteFromAdmin", userId, "member", fl)

\* --------------------------------------------------------------- families
\* the document createFamily writes: memberCount is data.memberCount ?? 0
FamilyPayload(mc) == [exists |-> TRUE, memberCount |-> IF mc = AbsentId THEN 0 ELSE mc]

\* the store part of createFamily(data): setDoc(merge) under data.id when the id is
\* given, addDoc under a fresh id otherwise
WriteFamily(fams, nextId, id, mc) ==
  IF id # NullId
  THEN [fams |-> [fams EXCEPT ![id] = FamilyPayload(mc)], nextId |-> nextId, id |-> id]
  ELSE [fams |-> [fams EXCEPT ![nextId] = FamilyPayload(mc)], nextId |-> nextId + 1,
        id |-> nextId]

\* createFamily(data): store call 1 setDoc / addDoc
createFamily(id, mc, fl) ==
  LET w == WriteFamily(families, nextFamilyId, id, mc) IN
  /\ id = NullId => nextFamilyId \in FamilyIds
  /\ IF fl = 1
     THEN /\ UNCHANGED <<families, nextFamilyId>>
          /\ last' = Done("createFamily", 0, id, NullId, TRUE, "store-error")
     ELSE /\ families' = w.fams
          /\ nextFamilyId' = w.nextId
          /\ last' = Done("createFamily", 0, w.id, NullId, FALSE, "none")
  /\ UNCHANGED <<users, notifications>>
  /\ ContentUnchanged /\ RequestsUnchanged

\* deleteFamily(familyId): store call 1 deleteDoc
deleteFamily(familyId, fl) ==
  /\ families' = IF fl = 1 THEN families ELSE [families EXCEPT ![familyId] = NoFamily]
  /\ last' = Done("deleteFamily", 0, familyId, NullId, fl = 1,
                  IF fl = 1 THEN "store-error" ELSE "none")
  /\ UNCHANGED <<users, nextFamilyId, notifications>>
  /\ ContentUnchanged /\ RequestsUnchanged

\* the families after the loop of initializeFamilies has written the seeds from k on
RECURSIVE SeedLoop(_, _, _)
SeedLoop(fams, k, fl) ==
  IF k > NumSeedFamilies \/ k = fl THEN fams
  ELSE SeedLoop([fams EXCEPT ![k] = [exists |-> TRUE, memberCount |-> 0]], k + 1, fl)

\* initializeFamilies(): store call k is setDoc(seed k, { ..., memberCount: 0 }, merge);
\* a rejection ends the loop and is only logged
initializeFamilies(fl) ==
  /\ families' = SeedLoop(families, 1, fl)
  /\ last' = Done("initializeFamilies", 0, NullId, NullId, fl \in SeedIds, "none")
  /\ UNCHANGED <<users, nextFamilyId, notifications>>
  /\ ContentUnchanged /\ RequestsUnchanged

\* deleteNotification(notificationId) of an existing notification: store call 1 deleteDoc
deleteNotification(fl) ==
  /\ notifications > 0
  /\ notifications' = IF fl = 1 THEN notifications ELSE notifications - 1
  /\ last' = Done("deleteNotification", 0, NullId, NullId, fl = 1,
                  IF fl = 1 THEN "store-error" ELSE "none")
  /\ UNCHANGED <<users, families, nextFamilyId>>
  /\ ContentUnchanged /\ RequestsUnchanged

\* ------------------------------------------------------------------ posts
\* createPost(post): store call 1 addDoc
createPost(familyId, authorId, fl) ==
  /\ nextPostId \in PostIds
  /\ IF fl = 1
     THEN /\ UNCHANGED <<posts, nextPostId>>
          /\ last' = Done("createPost", authorId, NullId, familyId, TRUE, "store-error")
     ELSE /\ posts' = [posts EXCEPT ![nextPostId] =
                         [exists |-> TRUE, familyId |-> familyId, authorId |-> authorId,
                          likes |-> <<>>, comments |-> <<>>]]
          /\ nextPostId' = nextPostId + 1
          /\ last' = Done("createPost", authorId, nextPostId, familyId, FALSE, "none")
  /\ MembershipUnchanged /\ RequestsUnchanged

\* deletePost(postId): store call 1 deleteDoc, which succeeds on a missing document
deletePost(postId, fl) ==
  /\ posts' = IF fl = 1 THEN posts ELSE [posts EXCEPT ![postId] = NoPost]
  /\ last' = Done("deletePost", 0, postId, NullId, fl = 1,
                  IF fl = 1 THEN "store-error" ELSE "none")
  /\ UNCHANGED nextPostId
  /\ MembershipUnchanged /\ RequestsUnchanged

\* the submit handler of CreatePost: the post carries the signed-in user's family and id
handleSubmit(a, fl) ==
  /\ users[a].exists /\ Truthy(users[a].familyId)
  /\ createPost(users[a].familyId, a, fl)

\* the delete control of FamilyDashboard: the feed holds the posts of the signed-in
\* user's family, the control is rendered for an admin and for the post's author
DeleteControlShown(a, postId) ==
  /\ users[a].exists /\ posts[postId].exists
  /\ posts[postId].familyId = users[a].familyId
  /\ users[a].role = "admin" \/ posts[postId].authorId = a

handleDeletePost(a, postId, fl) == DeleteControlShown(a, postId) /\ deletePost(postId, fl)

\* ------------------------------------------------------ likes and comments
\* a membership test that never finds the user
IncludesNever(array, x) == FALSE
\* likes.includes(userId), likes.filter(id => id !== userId) and
\* comments.filter(c => c.id !== commentId)
Includes(array, x) == \E i \in 1..Len(array) : array[i] = x
Without(array, x) == SelectSeq(array, LAMBDA y : y # x)
\* only the first comment with the id is taken out (findIndex and splice)
WithoutFirstId(comments, commentId) ==
  LET hits == {i \in 1..Len(comments) : comments[i].id = commentId} IN
  IF hits = {} THEN comments
  ELSE LET k == CHOOSE i \in hits : \A j \in hits : i <= j
       IN SubSeq(comments, 1, k - 1) \o SubSeq(comments, k + 1, Len(comments))
WithoutId(comments, commentId) == SelectSeq(comments, LAMBDA c : c.id # commentId)

\* the comment addComment builds: the caller's comment with the id `${Date.now()}`
NewComment(userId, now) == [id |-> now, userId |-> userId]

\* a push and a write whatever the array read holds
WritesAlways(op, array, userId) == TRUE
\* likePost pushes and writes only if (!likes.includes(userId)); the other three
\* operations always write
Writes(op, array, userId) == op = "likePost" => ~Includes(array, userId)

\* the array an operation that writes computes from the array it read
Computed(op, array, userId, commentId) ==
  CASE op = "likePost" -> Append(array, userId)
    [] op = "unlikePost" -> Without(array, userId)
    [] op = "addComment" -> Append(array, NewComment(userId, commentId))
    [] op = "deleteComment" -> WithoutId(array, commentId)

\* the field of the post an operation reads and writes
OnLikes(op) == op \in {"likePost", "unlikePost"}
Field(post, op) == IF OnLikes(op) THEN post.likes ELSE post.comments
WithField(post, op, array) ==
  IF OnLikes(op) THEN [post EXCEPT !.likes = array] ELSE [post EXCEPT !.comments = array]

\* likePost(postId, userId) / unlikePost(postId, userId) /
\* addComment(postId, comment of userId) at time commentId / deleteComment(postId,
\* commentId): store calls 1 getDoc(post), 2 updateDoc(post, { likes }) or
\* updateDoc(post, { comments })
EditPost(op, postId, userId, commentId, fl) ==
  LET found == posts[postId].exists
      array == Field(posts[postId], op)
      writes == Writes(op, array, userId)
      threw == IF fl = 1 THEN "store-error"
               ELSE IF ~found THEN "not-found"
               ELSE IF writes /\ fl = 2 THEN "store-error" ELSE "none"
  IN
  /\ posts' = IF threw = "none" /\ writes
              THEN [posts EXCEPT ![postId] =
                      WithField(@, op, Computed(op, array, userId, commentId))]
              ELSE posts
  /\ last' = Done(op, userId, postId,
                  IF found /\ OnLikes(op) /\ Includes(array, userId) THEN 1 ELSE 0,
                  threw # "none", threw)
  /\ UNCHANGED nextPostId
  /\ MembershipUnchanged /\ RequestsUnchanged

likePost(postId, userId, fl) == EditPost("likePost", postId, userId, 0, fl)
unlikePost(postId, userId, fl) == EditPost("unlikePost", postId, userId, 0, fl)
addComment(postId, userId, now, fl) ==
  /\ Len(posts[postId].comments) < MaxComments
  /\ EditPost("addComment", postId, userId, now, fl)
deleteComment(postId, commentId, fl) == EditPost("deleteComment", postId, 0, commentId, fl)

\* the same operations, their two store calls as separate steps of the operation
\* in flight for client c
Writers == {c \in Clients : edits[c].turn > 0}

\* the call, up to and with its getDoc, as the state of the operation after it: seen
\* are the clients that have written before this read
edRead(op, postId, userId, commentId) ==
  LET e == [NoEdit EXCEPT !.op = op, !.postId = postId, !.who = userId,
                          !.commentId = commentId]
      array == Field(posts[postId], op)
  IN
  IF ~posts[e.postId].exists THEN [e EXCEPT !.pc = "threw"]
  ELSE IF ~Writes(e.op, array, e.who)
       THEN [e EXCEPT !.pc = "done", !.read = array, !.seen = Writers]
       ELSE [e EXCEPT !.pc = "updateDoc", !.read = array, !.seen = Writers]

edGetDoc(c, op, postId, userId, commentId) ==
  /\ edits[c].pc = "idle"
  /\ edits' = [edits EXCEPT ![c] = edRead(op, postId, userId, commentId)]
  /\ UNCHANGED posts

\* the array in the store at the time of the write
WrittenFromStored(e, stored) == stored
\* the array the write is computed from: the local copy made from the getDoc snapshot
WrittenFrom(e, stored) == e.read

\* the array updateDoc writes: computed from the array read
edWritten(e) ==
  Computed(e.op, WrittenFrom(e, Field(posts[e.postId], e.op)), e.who, e.commentId)

\* updateDoc: turn is the position of this write among the writes
edUpdateDoc(c) ==
  LET e == edits[c]
      array == edWritten(e)
  IN
  /\ e.pc = "updateDoc"
  /\ IF posts[e.postId].exists
     THEN /\ posts' = [posts EXCEPT ![e.postId] = WithField(@, e.op, array)]
          /\ edits' = [edits EXCEPT ![c] = [e EXCEPT !.pc = "done", !.wrote = array,
                                                     !.turn = Cardinality(Writers) + 1]]
     ELSE /\ UNCHANGED posts
          /\ edits' = [edits EXCEPT ![c].pc = "threw"]

\* ------------------------------------------------------------------ media
\* a media record and its blob carry the same number: the record's id, the blob's path
FreeMediaIds == {m \in MediaIds : ~media[m].exists /\ m \notin blobs}
NextMediaId == CHOOSE m \in FreeMediaIds : \A q \in FreeMediaIds : m <= q

\* uploadMedia(file, familyId, type, title, uploadedBy): calls 1 uploadBytesResumable,
\* 2 getDownloadURL, 3 addDoc(media); a rejection after the upload leaves the blob
uploadMedia(familyId, uploadedBy, fl) ==
  /\ FreeMediaIds # {}
  /\ blobs' = IF fl = 1 THEN blobs ELSE blobs \cup {NextMediaId}
  /\ media' = IF fl = 0
              THEN [media EXCEPT ![NextMediaId] =
                      [exists |-> TRUE, familyId |-> familyId, filePath |-> TRUE]]
              ELSE media
  /\ last' = Done("uploadMedia", uploadedBy, IF fl = 0 THEN NextMediaId ELSE NullId, fl,
                  fl # 0, IF fl # 0 THEN "store-error" ELSE "none")
  /\ MembershipUnchanged /\ RequestsUnchanged /\ ContentUnchanged

\* a rejection of any call ends the operation
UncaughtAll(call) == TRUE
\* the calls of deleteMedia whose rejection ends it: deleteObject is in a try whose
\* catch only warns
Uncaught(call) == call # 2

\* deleteMedia(mediaId): calls 1 getDoc(media), 2 deleteObject(filePath), made if
\* (data?.filePath && storage) and rejected also when there is no such object,
\* 3 deleteDoc(media); last.prev is the call that the store rejected
deleteMedia(mediaId, fl) ==
  LET found == media[mediaId].exists
      tries == found /\ media[mediaId].filePath
      blobFails == tries /\ (fl = 2 \/ mediaId \notin blobs)
      threw == IF fl = 1 THEN "store-error"
               ELSE IF ~found THEN "not-found"
               ELSE IF blobFails /\ Uncaught(2) THEN "store-error"
               ELSE IF fl = 3 THEN "store-error" ELSE "none"
      reached(k) == fl # 1 /\ found /\ (k = 3 => ~(blobFails /\ Uncaught(2)))
  IN
  /\ blobs' = IF reached(2) /\ tries /\ ~blobFails THEN blobs \ {mediaId} ELSE blobs
  /\ media' = IF reached(3) /\ fl # 3 THEN [media EXCEPT ![mediaId] = NoMedia] ELSE media
  /\ last' = Done("deleteMedia", 0, mediaId, fl, threw # "none" \/ blobFails, threw)
  /\ MembershipUnchanged /\ RequestsUnchanged /\ ContentUnchanged

\* -------------------------------------------------------- admin dashboard
\* the signed-in user's document as the profile listener delivers it; nothing when
\* nobody is signed in
UserData(a) == IF a \in UserIds THEN users[a] ELSE NoUser

\* getUsersByFamily(familyId), as rows
Rows(us, familyId) ==
  [m \in UserIds |->
     IF us[m].exists /\ us[m].familyId = familyId
     THEN [shown |-> TRUE, role |-> us[m].role] ELSE NoRow]

\* onAuthStateChanged: user a signs in (a = 0: signs out); the dashboard keeps its rows
signIn(a) ==
  /\ a # 0 => users[a].exists
  /\ actor' = a
  /\ last' = Done("signIn", a, NullId, NullId, FALSE, "none")
  /\ UNCHANGED members
  /\ MembershipUnchanged /\ ContentUnchanged /\ RequestsUnchanged

\* loadAdminData: runs for an admin with a family, and fills the rows
loadAdminData ==
  /\ Truthy(UserData(actor).familyId) /\ UserData(actor).role = "admin"
  /\ members' = Rows(users, UserData(actor).familyId)
  /\ last' = Done("loadAdminData", actor, NullId, NullId, FALSE, "none")
  /\ UNCHANGED actor
  /\ MembershipUnchanged /\ ContentUnchanged /\ RequestsUnchanged

\* no row is the signed-in user's
IsSelfNever(a, memberId) == FALSE
\* userData?.id === member.id
IsSelf(a, memberId) == a = memberId

\* the buttons of a member row that are rendered and not disabled
PromoteOffered(a, m) == members[m].shown /\ members[m].role # "admin" /\ ~IsSelf(a, m)
DemoteOffered(a, m) == members[m].shown /\ members[m].role = "admin" /\ ~IsSelf(a, m)
RemoveOffered(a, m) == members[m].shown /\ ~IsSelf(a, m)

\* handlePromoteUser / handleDemoteUser (userId): return when userData has no family;
\* otherwise the local helper posts to /api/admin/promote or /api/admin/demote, whose
\* handler is not in the repository and either sets the role or does not, and the rows
\* are loaded again. last.prev is 1 when the helper was called
SetRoleByApi(op, offered, userId, role, applied) ==
  LET familyId == UserData(actor).familyId
      called == Truthy(familyId)
  IN
  /\ offered
  /\ users' = IF called /\ applied /\ users[userId].exists
              THEN [users EXCEPT ![userId].role = role] ELSE users
  /\ members' = IF called THEN Rows(users', familyId) ELSE members
  /\ last' = Done(op, userId, NullId, IF called THEN 1 ELSE 0, FALSE, "none")
  /\ UNCHANGED <<actor, families, nextFamilyId, notifications>>
  /\ ContentUnchanged /\ RequestsUnchanged

handlePromoteUser(userId, applied) ==
  SetRoleByApi("handlePromoteUser", PromoteOffered(actor, userId), userId, "admin", applied)
handleDemoteUser(userId, applied) ==
  SetRoleByApi("handleDemoteUser", DemoteOffered(actor, userId), userId, "member", applied)

\* handleRemoveMember(userId), the confirm accepted, userData with a family:
\* removeMemberFromFamily(userId), then the rows are loaded again unless it threw
handleRemoveMember(userId, fl) ==
  /\ RemoveOffered(actor, userId)
  /\ Truthy(UserData(actor).familyId)
  /\ removeMemberFromFamily(userId, fl)
  /\ members' = IF last'.threw = "none"
                THEN Rows(users', UserData(actor).familyId) ELSE members
  /\ UNCHANGED actor

\* -------------------------------------------------------- family selection
\* checkAdminLimit(familyId, maxAdmins = 3): the default of the parameter
maxAdmins == 3

\* checkAdminLimit: fewer than limit users of the family have role admin
checkAdminLimit(us, familyId, limit) ==
  Cardinality({u \in DOMAIN us : /\ us[u].exists /\ us[u].familyId = familyId
                                 /\ us[u].role = "admin"}) < limit

\* the join is made only while the family has room for another admin
JoinsUnderLimit(selectedFamily, canAddAdmin) == Truthy(selectedFamily) /\ canAddAdmin
\* handleJoinFamily: if (selectedFamily && currentUser); canAddAdmin, which
\* handleFamilySelect computed for the warning, is not consulted
Joins(selectedFamily, canAddAdmin) == Truthy(selectedFamily)

\* handleFamilySelect(familyId) then handleJoinFamily by the signed-in user a, who
\* is shown the selection screen while userData has no family
handleJoinFamily(a, familyId, fl) ==
  LET canAddAdmin == users[a].role = "admin" => checkAdminLimit(users, familyId, maxAdmins)
  IN
  /\ users[a].exists /\ ~Truthy(users[a].familyId)
  /\ IF Joins(familyId, canAddAdmin)
     THEN updateUserFamily(a, familyId, fl)
     ELSE /\ last' = Done("handleJoinFamily", a, familyId, NullId, FALSE, "none")
          /\ MembershipUnchanged /\ ContentUnchanged /\ RequestsUnchanged

\* -------------------------------------------------------- family requests
\* createFamilyRequest(request): store call 1 addDoc, status 'pending'
createFamilyRequest(fl) ==
  /\ nextRequestId \in RequestIds
  /\ IF fl = 1
     THEN /\ UNCHANGED <<familyRequests, nextRequestId>>
          /\ last' = Done("createFamilyRequest", 0, NullId, NullId, TRUE, "store-error")
     ELSE /\ familyRequests' = [familyRequests EXCEPT ![nextRequestId] =
                                  [exists |-> TRUE, status |-> "pending"]]
          /\ nextRequestId' = nextRequestId + 1
          /\ last' = Done("createFamilyRequest", 0, nextRequestId, NullId, FALSE, "none")
  /\ MembershipUnchanged /\ ContentUnchanged

\* approveFamilyRequest(requestId, familyData): store calls 1 getDoc(request),
\* 2 updateDoc(request, { status: 'approved' }), 3 the addDoc of createFamily.
\* undef: familyData carries a field whose value is undefined, which addDoc rejects.
approveFamilyRequest(requestId, undef, fl) ==
  LET found == familyRequests[requestId].exists
      w == WriteFamily(families, nextFamilyId, NullId, 0)
      threw == IF fl = 1 THEN "store-error"
               ELSE IF ~found THEN "not-found"
               ELSE IF fl = 2 \/ fl = 3 \/ undef THEN "store-error" ELSE "none"
  IN
  /\ nextFamilyId \in FamilyIds
  /\ familyRequests' = IF fl # 1 /\ found /\ fl # 2
                       THEN [familyRequests EXCEPT ![requestId].status = "approved"]
                       ELSE familyRequests
  /\ IF threw = "none"
     THEN families' = w.fams /\ nextFamilyId' = w.nextId
     ELSE UNCHANGED <<families, nextFamilyId>>
  /\ last' = Done("approveFamilyRequest", 0, requestId, NullId, threw # "none", threw)
  /\ UNCHANGED <<users, notifications, nextRequestId>>
  /\ ContentUnchanged

\* rejectFamilyRequest(requestId): store call 1 updateDoc(request, { status: 'rejected' }),
\* which rejects when the document is missing
rejectFamilyRequest(requestId, fl) ==
  LET ok == familyRequests[requestId].exists /\ fl # 1 IN
  /\ familyRequests' = IF ok
                       THEN [familyRequests EXCEPT ![requestId].status = "rejected"]
                       ELSE familyRequests
  /\ last' = Done("rejectFamilyRequest", 0, requestId, NullId, ~ok,
                  IF ok THEN "none" ELSE IF fl = 1 THEN "store-error" ELSE "not-found")
  /\ UNCHANGED nextRequestId
  /\ MembershipUnchanged /\ ContentUnchanged

\* --------------------------------------------------------- admin requests
\* the id addDoc hands out in 'adminRequests': requests are never deleted
FreeAdminRequestIds == {r \in AdminRequestIds : ~adminRequests[r].exists}
NextAdminRequestId == CHOOSE r \in FreeAdminRequestIds : \A q \in FreeAdminRequestIds : r <= q

\* createAdminRequest(userData): store call 1 addDoc, status 'pending'
createAdminRequest(userId, fl) ==
  /\ FreeAdminRequestIds # {}
  /\ IF fl = 1
     THEN /\ UNCHANGED adminRequests
          /\ last' = Done("createAdminRequest", userId, NullId, NullId, TRUE, "store-error")
     ELSE /\ adminRequests' = [adminRequests EXCEPT ![NextAdminRequestId] =
                                 [exists |-> TRUE, userId |-> userId, status |-> "pending",
                                  reviewedBy |-> 0]]
          /\ last' = Done("createAdminRequest", userId, NextAdminRequestId, NullId,
                          FALSE, "none")
  /\ MembershipUnchanged /\ ContentUnchanged /\ RequestsUnchanged

\* the user is made admin whatever the decision
GrantsAdminAlways(status) == TRUE
\* if (status === 'approved') the user document is updated
GrantsAdmin(status) == status = "approved"

\* reviewAdminRequest(requestId, status, reviewerId): store calls 1 getDoc(request),
\* 2 updateDoc(request, { status, reviewedBy }), 3 updateDoc(user, { role: 'admin' }),
\* which rejects when the user document is missing
reviewAdminRequest(requestId, status, reviewerId, fl) ==
  LET found == adminRequests[requestId].exists
      userId == adminRequests[requestId].userId
      threw == IF fl = 1 THEN "store-error"
               ELSE IF ~found THEN "not-found"
               ELSE IF fl = 2 THEN "store-error"
               ELSE IF ~GrantsAdmin(status) THEN "none"
               ELSE IF fl = 3 THEN "store-error"
               ELSE IF ~users[userId].exists THEN "not-found" ELSE "none"
  IN
  /\ adminRequests' = IF found /\ fl # 1 /\ fl # 2
                      THEN [adminRequests EXCEPT ![requestId].status = status,
                                                 ![requestId].reviewedBy = reviewerId]
                      ELSE adminRequests
  /\ users' = IF found /\ GrantsAdmin(status) /\ threw = "none"
              THEN [users EXCEPT ![userId].role = "admin"]
              ELSE users
  /\ last' = [Done("reviewAdminRequest", reviewerId, requestId, NullId,
                   threw # "none", threw) EXCEPT !.decision = status]
  /\ UNCHANGED <<families, nextFamilyId, notifications>>
  /\ ContentUnchanged /\ RequestsUnchanged

\* ------------------------------------------------------------ first setup
\* the marker document is not looked at
AlreadyInitializedNever(cfg) == FALSE
\* if (configDoc.exists()) throw new Error('App is already initialized')
AlreadyInitialized(cfg) == cfg.exists

\* initializeApp(config): store calls 1 getDoc(config), 2 createUserWithEmailAndPassword,
\* 3 setDoc(config), 4 setDoc(user), 5 signOut.  uid is the uid the identity service
\* gives the new account.
initializeApp(uid, fl) ==
  LET threw == IF fl = 1 THEN "store-error"
               ELSE IF AlreadyInitialized(config) THEN "already-initialized"
               ELSE IF fl \in 2..5 THEN "store-error" ELSE "none"
      reached(k) == threw # "already-initialized" /\ (fl = 0 \/ fl > k)
  IN
  /\ uid \notin accounts /\ ~users[uid].exists
  /\ accounts' = IF reached(2) THEN accounts \cup {uid} ELSE accounts
  /\ config' = IF reached(3) THEN [exists |-> TRUE, superAdminId |-> uid] ELSE config
  /\ users' = IF reached(4)
              THEN [users EXCEPT ![uid] = [exists |-> TRUE, role |-> "super_admin",
                                           familyId |-> NullId]]
              ELSE users
  /\ last' = Done("initializeApp", uid, NullId, NullId, threw # "none", threw)
  /\ UNCHANGED <<families, nextFamilyId, notifications>>
  /\ ContentUnchanged /\ RequestsUnchanged

\* ------------------------------------------- updateUserFamily, call by call
\* the store calls of updateUserFamily as separate steps of the call in flight for
\* user u: getDoc, updateDoc(user), the decrement, the increment, the notification
InFlight(u, pc) == calls[u].pc = pc
Goto(u, pc) == [calls EXCEPT ![u].pc = pc]

ufCall(u, newFamilyId) ==
  /\ InFlight(u, "idle")
  /\ calls' = [calls EXCEPT ![u] = [pc |-> "getDoc", newFamilyId |-> newFamilyId,
                                    prevFamilyId |-> NullId]]
  /\ UNCHANGED <<users, families, notifications>>

\* getDoc and updateDoc(user) of the call c in flight for user u
ufGetDocOf(c, u) ==
  /\ InFlight(c, "getDoc")
  /\ calls' = IF users[u].exists
              THEN [calls EXCEPT ![c].pc = "updateDoc",
                                 ![c].prevFamilyId = users[u].familyId]
              ELSE Goto(c, "threw")
  /\ UNCHANGED <<users, families, notifications>>

ufUpdateDocOf(c, u) ==
  /\ InFlight(c, "updateDoc")
  /\ users' = [users EXCEPT ![u].familyId = calls[c].newFamilyId]
  /\ calls' = Goto(c, "decrement")
  /\ UNCHANGED <<families, notifications>>

\* one call per user: the call is named by its user
ufGetDoc(u) == ufGetDocOf(u, u)
ufUpdateDoc(u) == ufUpdateDocOf(u, u)

ufDecrement(u) ==
  /\ InFlight(u, "decrement")
  /\ families' = IF DecDue(calls[u].prevFamilyId, calls[u].newFamilyId)
                 THEN Increment(families, calls[u].prevFamilyId, 0 - 1, FALSE)
                 ELSE families
  /\ calls' = Goto(u, "increment")
  /\ UNCHANGED <<users, notifications>>

ufIncrement(u) ==
  /\ InFlight(u, "increment")
  /\ families' = IF IncDue(calls[u].prevFamilyId, calls[u].newFamilyId)
                 THEN Increment(families, calls[u].newFamilyId, 1, FALSE)
                 ELSE families
  /\ calls' = Goto(u, "notify")
  /\ UNCHANGED <<users, notifications>>

ufNotify(u) ==
  /\ InFlight(u, "notify")
  /\ notifications' = IF IncDue(calls[u].prevFamilyId, calls[u].newFamilyId)
                      THEN CreateNotification(notifications, calls[u].newFamilyId, FALSE)
                      ELSE notifications
  /\ calls' = Goto(u, "done")
  /\ UNCHANGED <<users, families>>

\* ------------------------------------------------------------ observation
\* clean after an operation: nothing rejected and nothing thrown so far
CleanAfter(c, l) == c /\ ~l.failed /\ l.threw = "none"

\* joins after an operation: the latest two of an unbroken run of updateUserFamily
\* calls for one user, each with the families as they were before the call
JoinsAfter(js, l, fams) ==
  IF l.op = "updateUserFamily"
  THEN LET same == IF js # <<>> /\ js[Len(js)].call.uid = l.uid THEN js ELSE <<>>
           s == Append(same, [call |-> l, before |-> fams])
       IN IF Len(s) > 2 THEN SubSeq(s, Len(s) - 1, Len(s)) ELSE s
  ELSE <<>>

\* an operation of the sequential specifications: the history it leaves and the
\* caps of the model
Observed(op) ==
  /\ op
  /\ clean' = CleanAfter(clean, last')
  /\ joins' = <<>>
  /\ InBounds(families', notifications')
  /\ UNCHANGED <<calls, base, actor, watch>>
  /\ RestUnchanged

ObservedJoin(op) ==
  /\ op
  /\ UNCHANGED clean
  /\ joins' = JoinsAfter(joins, last', families)
  /\ InBounds(families', notifications')
  /\ UNCHANGED <<calls, base, actor, watch>>
  /\ RestUnchanged

\* the store calls that reject: none, or any one call of the operation
NoFail(n) == {0}
AnyFail(n) == 0..n

\* ------------------------------------------------- membership specification
\* the families the membership operations name: the seeds and the ids handed out
Joinable == {f \in KnownFamilyIds : f <= MaxFamilies}

\* every membership operation, run to completion one after the other, no store
\* call rejecting unless the document it updates is missing
Next ==
  \/ \E u \in Movers, r \in SignupRoles \cup {"none"},
        f \in Joinable \cup {NullId, EmptyId}, fl \in NoFail(3) :
       Observed(createUserProfile(u, r, f, fl))
  \/ \E u \in Movers, r \in SignupRoles \cup {"none"},
        f \in Joinable \cup {NullId, AbsentId}, fl \in NoFail(1) :
       Observed(updateUserProfile(u, r, f, fl))
  \/ \E u \in Movers, f \in Joinable, fl \in NoFail(5) :
       Observed(updateUserFamily(u, f, fl))
  \/ \E u \in Movers, fl \in NoFail(5) : Observed(removeMemberFromFamily(u, fl))
  \/ \E u \in Movers, fl \in NoFail(3) : Observed(deleteUser(u, fl))
  \/ \E u \in Movers, fl \in NoFail(1) : Observed(promoteToAdmin(u, fl))
  \/ \E u \in Movers, fl \in NoFail(1) : Observed(demoteFromAdmin(u, fl))
  \/ \E f \in Joinable \cup {NullId}, mc \in {AbsentId, 0}, fl \in NoFail(1) :
       /\ f = NullId => nextFamilyId <= MaxFamilies
       /\ Observed(createFamily(f, mc, fl))
  \/ \E f \in Joinable, fl \in NoFail(1) : Observed(deleteFamily(f, fl))
  \/ \E fl \in NoFail(NumSeedFamilies) : Observed(initializeFamilies(fl))
  \/ \E fl \in NoFail(1) : Observed(deleteNotification(fl))

Spec == Init /\ [][Next]_vars

\* the operations that move users between families, each family created once,
\* with the history of the latest consecutive updateUserFamily calls of one user
InitJoin == EmptyStore /\ watch = {"updateUserFamily", "deleteUser"}

NextJoin ==
  \/ \E u \in Movers, f \in Joinable \cup {NullId, EmptyId}, fl \in NoFail(3) :
       ObservedJoin(createUserProfile(u, "none", f, fl))
  \/ \E u \in Movers, f \in Joinable, fl \in NoFail(5) :
       ObservedJoin(updateUserFamily(u, f, fl))
  \/ \E u \in Movers, fl \in NoFail(5) : ObservedJoin(removeMemberFromFamily(u, fl))
  \/ \E u \in Movers, fl \in NoFail(3) : ObservedJoin(deleteUser(u, fl))
  \/ \E f \in Joinable \cup {NullId}, fl \in NoFail(1) :
       /\ f = NullId => nextFamilyId <= MaxFamilies
       /\ f # NullId => ~families[f].exists
       /\ ObservedJoin(createFamily(f, AbsentId, fl))
  \/ \E fl \in NoFail(1) : ObservedJoin(deleteNotification(fl))

SpecJoin == InitJoin /\ [][NextJoin]_vars

\* ------------------------------------------------- concurrent specification
\* a store whose families exist with true counters, every user in one of them or
\* in none, and no call started
InitConc ==
  /\ users \in [UserIds -> [exists : {TRUE}, role : {"member"},
                            familyId : {NullId} \cup (1..MaxFamilies)]]
  /\ families = [f \in FamilyIds |->
                   IF f <= MaxFamilies
                   THEN [exists |-> TRUE, memberCount |-> MembersOf(users, f)]
                   ELSE NoFamily]
  /\ nextFamilyId = MaxFamilies + 1
  /\ notifications = 0
  /\ posts = [p \in PostIds |-> NoPost]
  /\ nextPostId = 1
  /\ familyRequests = [r \in RequestIds |-> NoRequest]
  /\ nextRequestId = 1
  /\ calls = [u \in UserIds |-> Idle]
  /\ base = families
  /\ actor = 0
  /\ clean = TRUE
  /\ last = NoOp
  /\ joins = <<>>
  /\ RestEmpty
  /\ watch = {}

Step(op) ==
  /\ op
  /\ UNCHANGED <<nextFamilyId, base, actor, clean, last, joins, watch>>
  /\ RestUnchanged
  /\ ContentUnchanged /\ RequestsUnchanged

\* one updateUserFamily call per user, the store calls of the calls interleaved
NextConc ==
  \/ \E u \in UserIds, f \in {NullId} \cup (1..MaxFamilies) : Step(ufCall(u, f))
  \/ \E u \in UserIds : Step(ufGetDoc(u))
  \/ \E u \in UserIds : Step(ufUpdateDoc(u))
  \/ \E u \in UserIds : Step(ufDecrement(u))
  \/ \E u \in UserIds : Step(ufIncrement(u))
  \/ \E u \in UserIds : Step(ufNotify(u))

SpecConc == InitConc /\ [][NextConc]_vars

\* ---------------------------------------------------- content specification
\* an operation run on behalf of the signed-in user a
ObservedAs(a, op) ==
  /\ op
  /\ actor' = a
  /\ clean' = CleanAfter(clean, last')
  /\ UNCHANGED <<calls, base, joins, watch>>
  /\ RestUnchanged

\* the families created and empty, nobody signed up
InitContent ==
  /\ users = [u \in UserIds |-> NoUser]
  /\ families = [f \in FamilyIds |->
                   IF f <= MaxFamilies THEN [exists |-> TRUE, memberCount |-> 0]
                   ELSE NoFamily]
  /\ nextFamilyId = MaxFamilies + 1
  /\ notifications = 0
  /\ posts = [p \in PostIds |-> NoPost]
  /\ nextPostId = 1
  /\ familyRequests = [r \in RequestIds |-> NoRequest]
  /\ nextRequestId = 1
  /\ calls = [u \in UserIds |-> Idle]
  /\ base = families
  /\ actor = 0
  /\ clean = TRUE
  /\ last = NoOp
  /\ joins = <<>>
  /\ RestEmpty
  /\ watch = {"createPost", "deletePost"}

\* each user signs up once, posts through the form, and deletes posts through the
\* dashboard control or by calling deletePost
NextContent ==
  \/ \E u \in UserIds, r \in Roles, f \in 1..MaxFamilies, fl \in NoFail(3) :
       /\ ~users[u].exists
       /\ ObservedAs(u, createUserProfile(u, r, f, fl))
  \/ \E a \in UserIds, fl \in AnyFail(1) : ObservedAs(a, handleSubmit(a, fl))
  \/ \E a \in UserIds, p \in PostIds, fl \in AnyFail(1) :
       ObservedAs(a, handleDeletePost(a, p, fl))
  \/ \E a \in UserIds, p \in PostIds, fl \in AnyFail(1) :
       /\ users[a].exists
       /\ ObservedAs(a, deletePost(p, fl))

SpecContent == InitContent /\ [][NextContent]_vars

\* --------------------------------------------------- requests specification
\* the family requests and their review, any one store call of an operation rejecting
NextRequests ==
  \/ \E fl \in AnyFail(1) : Observed(createFamilyRequest(fl))
  \/ \E r \in RequestIds, undef \in BOOLEAN, fl \in AnyFail(3) :
       Observed(approveFamilyRequest(r, undef, fl))
  \/ \E r \in RequestIds, fl \in AnyFail(1) : Observed(rejectFamilyRequest(r, fl))

SpecRequests == Init /\ [][NextRequests]_vars

\* ------------------------------------------------------ roles specification
\* the history an operation leaves
History(op) ==
  /\ op
  /\ clean' = CleanAfter(clean, last')
  /\ joins' = <<>>
  /\ UNCHANGED <<calls, base, actor, watch>>

\* sign-up, deletion, promotion and demotion of users, the one store call of a
\* promotion or demotion rejecting or not
NextRoles ==
  \/ \E u \in UserIds, r \in Roles, fl \in NoFail(3) :
       Observed(createUserProfile(u, r, EmptyId, fl))
  \/ \E u \in UserIds, fl \in NoFail(3) : Observed(deleteUser(u, fl))
  \/ \E u \in UserIds, fl \in AnyFail(1) : Observed(promoteToAdmin(u, fl))
  \/ \E u \in UserIds, fl \in AnyFail(1) : Observed(demoteFromAdmin(u, fl))

SpecRoles == Init /\ [][NextRoles]_vars

\* ---------------------------------------------- admin requests specification
ObservedReview(op) ==
  /\ History(op)
  /\ MediaUnchanged /\ SetupUnchanged /\ UNCHANGED <<edits, members, session>>

InitAdminRequests ==
  EmptyStore /\ watch = {"createAdminRequest", "reviewAdminRequest"}

\* users sign up and are deleted, admin requests are filed and reviewed, any one
\* store call of a review rejecting
NextAdminRequests ==
  \/ \E u \in Movers, fl \in NoFail(3) :
       Observed(createUserProfile(u, "none", EmptyId, fl))
  \/ \E u \in Movers, fl \in NoFail(3) : Observed(deleteUser(u, fl))
  \/ \E u \in Movers, fl \in NoFail(1) : ObservedReview(createAdminRequest(u, fl))
  \/ \E r \in AdminRequestIds, st \in {"approved", "rejected"}, by \in UserIds,
        fl \in AnyFail(3) :
       ObservedReview(reviewAdminRequest(r, st, by, fl))

SpecAdminRequests == InitAdminRequests /\ [][NextAdminRequests]_vars

\* ------------------------------------------------------ setup specification
ObservedSetup(op) ==
  /\ History(op)
  /\ AdminRequestsUnchanged /\ MediaUnchanged /\ UNCHANGED <<edits, members, session>>

InitSetup == EmptyStore /\ watch = {"initializeApp"}

\* the first-time setup, run any number of times, between sign-ups, deletions and
\* promotions; any one store call of the setup rejecting
NextSetup ==
  \/ \E uid \in UserIds, fl \in AnyFail(5) : ObservedSetup(initializeApp(uid, fl))
  \/ \E u \in UserIds, r \in SignupRoles, fl \in NoFail(3) :
       /\ ~users[u].exists
       /\ Observed(createUserProfile(u, r, EmptyId, fl))
  \/ \E u \in UserIds, fl \in NoFail(3) : Observed(deleteUser(u, fl))
  \/ \E u \in UserIds, fl \in NoFail(1) : Observed(promoteToAdmin(u, fl))

SpecSetup == InitSetup /\ [][NextSetup]_vars

\* ------------------------------------------------------ likes specification
InitLikes == EmptyStore /\ watch = {"likePost", "unlikePost"}

\* likes and unlikes of posts, one call after the other, between the creation and
\* the deletion of posts; either store call of a like or an unlike rejecting
NextLikes ==
  \/ \E u \in UserIds, fl \in NoFail(1) : Observed(createPost(NullId, u, fl))
  \/ \E p \in PostIds, fl \in NoFail(1) : Observed(deletePost(p, fl))
  \/ \E p \in PostIds, u \in UserIds, fl \in AnyFail(2) : Observed(likePost(p, u, fl))
  \/ \E p \in PostIds, u \in UserIds, fl \in AnyFail(2) : Observed(unlikePost(p, u, fl))

SpecLikes == InitLikes /\ [][NextLikes]_vars

\* ------------------------------------------------------- race specification
\* the members of a set of numbers, in increasing order
RECURSIVE Ascending(_)
Ascending(S) ==
  IF S = {} THEN <<>>
  ELSE LET m == CHOOSE x \in S : \A y \in S : x <= y
       IN <<m>> \o Ascending(S \ {m})

\* the arrays of a post that earlier likes and comments have left
SomeLikes == {Ascending(S) : S \in SUBSET Likers}
SomeComments ==
  {[i \in 1..Len(ids) |-> NewComment(1, ids[i])] :
     ids \in {Ascending(S) : S \in {T \in SUBSET CommentIds : Cardinality(T) <= MaxComments}}}

\* one post with some likes and comments, no operation on it in flight
InitRace ==
  /\ users = [u \in UserIds |-> NoUser]
  /\ families = [f \in FamilyIds |-> NoFamily]
  /\ nextFamilyId = NumSeedFamilies + 1
  /\ notifications = 0
  /\ \E likes \in SomeLikes, comments \in SomeComments :
       posts = [p \in PostIds |->
                  IF p = 1
                  THEN [exists |-> TRUE, familyId |-> NullId, authorId |-> 1,
                        likes |-> likes, comments |-> comments]
                  ELSE NoPost]
  /\ nextPostId = 2
  /\ familyRequests = [r \in RequestIds |-> NoRequest]
  /\ nextRequestId = 1
  /\ calls = [u \in UserIds |-> Idle]
  /\ base = families
  /\ actor = 0
  /\ clean = TRUE
  /\ last = NoOp
  /\ joins = <<>>
  /\ RestEmpty
  /\ watch = {}

\* a store call of an operation in flight on a post
Race(op) ==
  /\ op
  /\ UNCHANGED <<nextPostId, calls, base, actor, clean, last, joins, watch>>
  /\ MembershipUnchanged /\ RequestsUnchanged
  /\ AdminRequestsUnchanged /\ MediaUnchanged /\ SetupUnchanged
  /\ UNCHANGED <<members, session>>

ExistingPosts == {p \in PostIds : posts[p].exists}

\* each client runs one of the four operations on the post, their store calls in any
\* order
NextRace ==
  \/ \E c \in Clients, p \in ExistingPosts, u \in Likers :
       Race(edGetDoc(c, "likePost", p, u, 0))
  \/ \E c \in Clients, p \in ExistingPosts, u \in Likers :
       Race(edGetDoc(c, "unlikePost", p, u, 0))
  \/ \E c \in Clients, p \in ExistingPosts, u \in Likers, now \in CommentIds :
       Race(edGetDoc(c, "addComment", p, u, now))
  \/ \E c \in Clients, p \in ExistingPosts, id \in CommentIds :
       Race(edGetDoc(c, "deleteComment", p, 0, id))
  \/ \E c \in Clients : Race(edUpdateDoc(c))

SpecRace == InitRace /\ [][NextRace]_vars

\* ------------------------------------------------------ media specification
\* a completed media call
ObservedMedia(op) ==
  /\ History(op)
  /\ AdminRequestsUnchanged /\ SetupUnchanged /\ UNCHANGED <<edits, members, session>>

InitMedia == EmptyStore /\ watch = {"uploadMedia", "deleteMedia"}

\* uploads and deletions of media, any one store call of each rejecting
NextMedia ==
  \/ \E f \in SeedIds, u \in UserIds, fl \in AnyFail(3) :
       ObservedMedia(uploadMedia(f, u, fl))
  \/ \E m \in MediaIds, fl \in AnyFail(3) : ObservedMedia(deleteMedia(m, fl))

SpecMedia == InitMedia /\ [][NextMedia]_vars

\* ---------------------------------------------------- failure specification
InitFail == EmptyStore /\ watch = {"updateUserFamily"}

\* a completed call; CleanAfter and JoinsAfter are not kept
Tolerated(op) ==
  /\ op
  /\ InBounds(families', notifications')
  /\ UNCHANGED <<calls, base, actor, watch, clean, joins>>
  /\ RestUnchanged

\* the store calls of updateUserFamily that reject: none, the decrement of the previous
\* family, the increment of the new family
CounterFail == {0, 3, 4}

\* families created, users signed up and moved between them, one of the two counter
\* updates of a move rejecting
NextFail ==
  \/ \E u \in Movers, fl \in NoFail(3) :
       /\ ~users[u].exists
       /\ Tolerated(createUserProfile(u, "none", NullId, fl))
  \/ \E f \in Joinable \cup {NullId}, fl \in NoFail(1) :
       /\ f = NullId => nextFamilyId <= MaxFamilies
       /\ f # NullId => ~families[f].exists
       /\ Tolerated(createFamily(f, AbsentId, fl))
  \/ \E u \in Movers, f \in Joinable \cup {NullId}, fl \in CounterFail :
       Tolerated(updateUserFamily(u, f, fl))

SpecFail == InitFail /\ [][NextFail]_vars

\* -------------------------------------------------- dashboard specification
\* a step of the session or of the dashboard
Session(op) ==
  /\ op
  /\ InBounds(families', notifications')
  /\ UNCHANGED <<calls, base, joins, watch, clean>>
  /\ AdminRequestsUnchanged /\ MediaUnchanged /\ SetupUnchanged
  /\ UNCHANGED <<edits, session>>

\* a data-access call made outside the dashboard
Outside(op) == Session(op /\ UNCHANGED <<actor, members>>)

InitDashboard ==
  /\ EmptyStore
  /\ watch = {"handlePromoteUser", "handleDemoteUser", "updateUserFamily"}

\* users sign up into a family as members or admins, are deleted, sign in and out; the
\* signed-in user loads the dashboard and uses the buttons of its rows
NextDashboard ==
  \/ \E u \in UserIds, r \in SignupRoles, f \in SeedIds, fl \in NoFail(3) :
       /\ ~users[u].exists
       /\ Outside(createUserProfile(u, r, f, fl))
  \/ \E u \in UserIds, fl \in NoFail(3) : Outside(deleteUser(u, fl))
  \/ \E a \in UserIds \cup {0} : Session(signIn(a))
  \/ Session(loadAdminData)
  \/ \E m \in UserIds, applied \in BOOLEAN : Session(handlePromoteUser(m, applied))
  \/ \E m \in UserIds, applied \in BOOLEAN : Session(handleDemoteUser(m, applied))
  \/ \E m \in UserIds, fl \in AnyFail(2) : Session(handleRemoveMember(m, fl))

SpecDashboard == InitDashboard /\ [][NextDashboard]_vars

\* ------------------------------------------------ admin limit specification
\* enough users to fill the admin seats of a family, and one more
Staff == 1..(maxAdmins + 1)

\* the families created and empty, nobody signed up; the users are the staff
InitLimit ==
  /\ users = [u \in Staff |-> NoUser]
  /\ families = [f \in FamilyIds |->
                   IF f <= MaxFamilies THEN [exists |-> TRUE, memberCount |-> 0]
                   ELSE NoFamily]
  /\ nextFamilyId = MaxFamilies + 1
  /\ notifications = 0
  /\ posts = [p \in PostIds |-> NoPost]
  /\ nextPostId = 1
  /\ familyRequests = [r \in RequestIds |-> NoRequest]
  /\ nextRequestId = 1
  /\ calls = [u \in UserIds |-> Idle]
  /\ base = families
  /\ actor = 0
  /\ clean = TRUE
  /\ last = NoOp
  /\ joins = <<>>
  /\ RestEmpty
  /\ watch = {"updateUserFamily", "handleJoinFamily", "promoteToAdmin"}

\* a completed call; the counters grow with the staff only
Staffed(op) ==
  /\ op
  /\ UNCHANGED <<calls, base, actor, watch, clean, joins>>
  /\ RestUnchanged

\* each of the staff signs up without a family as member or admin, joins a family
\* through the selection screen, and is promoted
NextLimit ==
  \/ \E u \in Staff, r \in SignupRoles, fl \in NoFail(3) :
       /\ ~users[u].exists
       /\ Staffed(createUserProfile(u, r, EmptyId, fl))
  \/ \E u \in Staff, f \in SeedIds, fl \in NoFail(5) : Staffed(handleJoinFamily(u, f, fl))
  \/ \E u \in Staff, fl \in NoFail(1) : Staffed(promoteToAdmin(u, fl))

SpecLimit == InitLimit /\ [][NextLimit]_vars

\* ----------------------------------------------------- counter specification
\* the operations that write memberCount or familyId, one call after the other, no
\* store call made to reject
NextCount ==
  \/ \E u \in Movers, f \in Joinable \cup {NullId, EmptyId}, fl \in NoFail(3) :
       Observed(createUserProfile(u, "none", f, fl))
  \/ \E u \in Movers, f \in Joinable, fl \in NoFail(5) :
       Observed(updateUserFamily(u, f, fl))
  \/ \E u \in Movers, fl \in NoFail(5) : Observed(removeMemberFromFamily(u, fl))
  \/ \E u \in Movers, fl \in NoFail(3) : Observed(deleteUser(u, fl))
  \/ \E f \in Joinable \cup {NullId}, mc \in {AbsentId, 0}, fl \in NoFail(1) :
       /\ f = NullId => nextFamilyId <= MaxFamilies
       /\ Observed(createFamily(f, mc, fl))
  \/ \E fl \in NoFail(NumSeedFamilies) : Observed(initializeFamilies(fl))
  \/ \E fl \in NoFail(1) : Observed(deleteNotification(fl))

SpecCount == Init /\ [][NextCount]_vars

\* ------------------------------------------------ repeated call specification
\* every user a member of a family or of none, the counters matching, and the calls
\* of the clients all for one user, actor
InitTwice ==
  /\ users \in [UserIds -> [exists : {TRUE}, role : {"member"},
                            familyId : {NullId} \cup (1..MaxFamilies)]]
  /\ families = [f \in FamilyIds |->
                   IF f <= MaxFamilies
                   THEN [exists |-> TRUE, memberCount |-> MembersOf(users, f)]
                   ELSE NoFamily]
  /\ nextFamilyId = MaxFamilies + 1
  /\ notifications = 0
  /\ posts = [p \in PostIds |-> NoPost]
  /\ nextPostId = 1
  /\ familyRequests = [r \in RequestIds |-> NoRequest]
  /\ nextRequestId = 1
  /\ calls = [c \in Clients |-> Idle]
  /\ base = families
  /\ actor \in UserIds
  /\ clean = TRUE
  /\ last = NoOp
  /\ joins = <<>>
  /\ RestEmpty
  /\ watch = {}

\* one updateUserFamily call per client, all for the user actor, the store calls of
\* the calls interleaved
NextTwice ==
  \/ \E c \in Clients, f \in 1..MaxFamilies : Step(ufCall(c, f))
  \/ \E c \in Clients : Step(ufGetDocOf(c, actor))
  \/ \E c \in Clients : Step(ufUpdateDocOf(c, actor))
  \/ \E c \in Clients : Step(ufDecrement(c))
  \/ \E c \in Clients : Step(ufIncrement(c))
  \/ \E c \in Clients : Step(ufNotify(c))

SpecTwice == InitTwice /\ [][NextTwice]_vars

\* ------------------------------------------------ concurrent likes specification
\* the operation in flight without the record of who wrote before whom
Forget(e) == [e EXCEPT !.seen = {}, !.wrote = <<>>, !.turn = 0]

\* a client whose previous call has returned or thrown calls one of the four
\* operations: the call up to and with its getDoc
opGetDoc(c, op, postId, userId, commentId) ==
  /\ edits[c].pc \in {"idle", "done", "threw"}
  /\ edits' = [edits EXCEPT ![c] = Forget(edRead(op, postId, userId, commentId))]
  /\ UNCHANGED posts

\* its updateDoc(postRef, { likes }) or updateDoc(postRef, { comments })
opUpdateDoc(c) ==
  LET e == edits[c] IN
  /\ e.pc = "updateDoc"
  /\ IF posts[e.postId].exists
     THEN /\ posts' = [posts EXCEPT ![e.postId] = WithField(@, e.op, edWritten(e))]
          /\ edits' = [edits EXCEPT ![c].pc = "done"]
     ELSE /\ UNCHANGED posts
          /\ edits' = [edits EXCEPT ![c].pc = "threw"]

InitLikeRace == EmptyStore /\ watch = {}

\* one post made by createPost; every client likes and unlikes it again and again,
\* the store calls of the clients in any order
NextLikeRace ==
  \/ \E u \in UserIds, fl \in NoFail(1) :
       ExistingPosts = {} /\ Observed(createPost(NullId, u, fl))
  \/ \E c \in Clients, p \in ExistingPosts, u \in Likers :
       Race(opGetDoc(c, "likePost", p, u, 0))
  \/ \E c \in Clients, p \in ExistingPosts, u \in Likers :
       Race(opGetDoc(c, "unlikePost", p, u, 0))
  \/ \E c \in Clients : Race(opUpdateDoc(c))

SpecLikeRace == InitLikeRace /\ [][NextLikeRace]_vars

\* ----------------------------------------------------- comments specification
\* the client whose calls are followed
Caller == CHOOSE c \in Clients : \A d \in Clients : c <= d

InitComments == EmptyStore /\ watch = {}

\* one post made by createPost; addComment and deleteComment calls on it, one call
\* after the other; the id 0 is an id no comment carries
NextComments ==
  \/ \E u \in UserIds, fl \in NoFail(1) :
       ExistingPosts = {} /\ Observed(createPost(NullId, u, fl))
  \/ \E p \in ExistingPosts, u \in UserIds, now \in CommentIds :
       /\ Len(posts[p].comments) < MaxThread
       /\ Race(opGetDoc(Caller, "addComment", p, u, now))
  \/ \E p \in ExistingPosts, id \in 0..MaxComments :
       Race(opGetDoc(Caller, "deleteComment", p, 0, id))
  \/ Race(opUpdateDoc(Caller))

SpecComments == InitComments /\ [][NextComments]_vars

\* ------------------------------------------------------------ AuthProvider
\* the profile listeners
Handles == 1..MaxSubscriptions
Listening(ss) == {h \in Handles : ss.subs[h] # NullId}

\* what the snapshot callback of subscribeToUserProfile(userId, callback) passes on:
\* { id, ...data } when the document exists, null otherwise
Profile(userId) ==
  IF users[userId].exists THEN [id |-> userId, role |-> users[userId].role]
  ELSE NoSession.userData

\* the previous subscription is never cancelled
CleansUpNever(unsubscribe) == FALSE
\* if (unsubscribeFromUserProfile) { unsubscribeFromUserProfile(); ... = null }
CleansUp(unsubscribe) == unsubscribe # 0

\* signInWithEmailAndPassword: the auth state becomes u, also when another user was
\* signed in; the listener is told later
login(u) ==
  /\ session.user # u /\ Len(session.events) < MaxEvents
  /\ session' = [session EXCEPT !.user = u, !.events = Append(@, u)]

\* logout: setUserData(null), then signOut(auth)
logout ==
  /\ session.user # NullId /\ Len(session.events) < MaxEvents
  /\ session' = [session EXCEPT !.userData = NoSession.userData, !.user = NullId,
                                !.events = Append(@, NullId)]

\* the onAuthStateChanged callback for the oldest auth event: setCurrentUser, cancel
\* the previous profile subscription, then subscribe for the user or clear userData
onAuthStateChanged ==
  LET user == Head(session.events)
      cleaned == IF CleansUp(session.unsubscribeFromUserProfile)
                 THEN [session EXCEPT !.subs[session.unsubscribeFromUserProfile] = NullId,
                                      !.unsubscribeFromUserProfile = 0]
                 ELSE session
      free == Handles \ Listening(cleaned)
      h == CHOOSE x \in free : \A y \in free : x <= y
  IN
  /\ session.events # <<>>
  /\ user # NullId => free # {}
  /\ session' = IF user # NullId
                THEN [cleaned EXCEPT !.events = Tail(@), !.currentUser = user,
                                     !.subs[h] = user,
                                     !.unsubscribeFromUserProfile = h]
                ELSE [cleaned EXCEPT !.events = Tail(@), !.currentUser = user,
                                     !.userData = NoSession.userData]

\* a snapshot of the profile reaches the callback of a listener that is not cancelled
onSnapshot(h) ==
  /\ session.subs[h] # NullId
  /\ session' = [session EXCEPT !.userData = Profile(session.subs[h])]

\* a step of AuthProvider
InProvider(op) ==
  /\ op
  /\ UNCHANGED <<calls, base, actor, clean, last, joins, watch, edits, members>>
  /\ MembershipUnchanged /\ ContentUnchanged /\ RequestsUnchanged
  /\ AdminRequestsUnchanged /\ MediaUnchanged /\ SetupUnchanged

InitProvider == EmptyStore /\ watch = {}

\* users sign in, sign out and take each other's place, profiles are made and
\* deleted, and the auth events and profile snapshots arrive in any order
NextProvider ==
  \/ \E u \in UserIds, r \in SignupRoles, fl \in NoFail(3) :
       ~users[u].exists /\ Outside(createUserProfile(u, r, EmptyId, fl))
  \/ \E u \in UserIds, fl \in NoFail(3) : users[u].exists /\ Outside(deleteUser(u, fl))
  \/ \E u \in UserIds : InProvider(login(u))
  \/ InProvider(logout)
  \/ InProvider(onAuthStateChanged)
  \/ \E h \in Handles : InProvider(onSnapshot(h))

SpecProvider == InitProvider /\ [][NextProvider]_vars

\* ==================================================================== claims
Existing(fams) == {f \in FamilyIds : fams[f].exists}
OneCall(c) == c.threw = "none" /\ ~c.failed

\* C1: in every state reached by completed operations none of which had a store call
\* rejected, every Family's memberCount equals the number of User records whose
\* familyId is that Family's id.
C1_MemberCountMatches ==
  clean => \A f \in Existing(families) : families[f].memberCount = MembersOf(users, f)

\* two consecutive updateUserFamily calls for the same user, to two distinct families
\* that exist, with no store call rejected
TwoJoins ==
  /\ Len(joins) = 2
  /\ joins[1].call.uid = joins[2].call.uid
  /\ joins[1].call.arg # joins[2].call.arg
  /\ {joins[1].call.arg, joins[2].call.arg} \subseteq Existing(joins[1].before)
  /\ OneCall(joins[1].call) /\ OneCall(joins[2].call)

\* C2 as stated: after updateUserFamily(U, F1) then updateUserFamily(U, F2), U is in F2,
\* F1.memberCount is 1 lower and F2.memberCount 1 higher than before the two calls.
C2_Original ==
  TwoJoins =>
    LET F1 == joins[1].call.arg
        F2 == joins[2].call.arg
    IN /\ users[joins[1].call.uid].familyId = F2
       /\ families[F1].memberCount = joins[1].before[F1].memberCount - 1
       /\ families[F2].memberCount = joins[1].before[F2].memberCount + 1

\* C2 amended: after the two calls U is in F2; F1.memberCount is 1 lower than before
\* the calls when U was in F1 before them and unchanged otherwise; F2.memberCount is
\* 1 higher than before when U was not in F2 before them and unchanged otherwise.
C2_TwoJoins ==
  TwoJoins =>
    LET F1 == joins[1].call.arg
        F2 == joins[2].call.arg
        was == joins[1].call.prev
    IN /\ users[joins[1].call.uid].familyId = F2
       /\ families[F1].memberCount =
            joins[1].before[F1].memberCount - (IF was = F1 THEN 1 ELSE 0)
       /\ families[F2].memberCount =
            joins[1].before[F2].memberCount + (IF was = F2 THEN 0 ELSE 1)

\* U was in no family before the two calls: F1 ends where it started, F2 one higher
C2_Witness ==
  /\ TwoJoins
  /\ joins[1].call.prev = NullId
  /\ families[joins[1].call.arg].memberCount = joins[1].before[joins[1].call.arg].memberCount
  /\ families[joins[2].call.arg].memberCount =
       joins[1].before[joins[2].call.arg].memberCount + 1

\* a step of updateUserFamily(U, F) taken when U.familyId is F already
SameFamilyStep ==
  /\ last'.op = "updateUserFamily"
  /\ users[last'.uid].exists
  /\ users[last'.uid].familyId = last'.arg

\* two consecutive calls updateUserFamily(U, F) with the same family F
SameJoinTwice ==
  /\ Len(joins) = 2
  /\ joins[1].call.uid = joins[2].call.uid
  /\ joins[1].call.arg = joins[2].call.arg
  /\ Truthy(joins[1].call.arg)

\* C3: updateUserFamily(U, F) called when U.familyId is F already changes no
\* memberCount and creates no notification, and two consecutive calls
\* updateUserFamily(U, F) change F.memberCount by at most 1 in total.
C3_SameFamilyNoOp ==
  /\ [][SameFamilyStep => families' = families /\ notifications' = notifications]_vars
  /\ [](SameJoinTwice =>
          LET F == joins[1].call.arg
              d == families[F].memberCount - joins[1].before[F].memberCount
          IN d \in {0 - 1, 0, 1})

\* the second of two joins of the same existing family: the first one counted U,
\* the second found U in F and left the counter alone
C3_Witness ==
  /\ SameJoinTwice
  /\ OneCall(joins[1].call) /\ OneCall(joins[2].call)
  /\ joins[1].call.prev # joins[1].call.arg
  /\ joins[2].call.prev = joins[2].call.arg
  /\ families[joins[1].call.arg].memberCount =
       joins[1].before[joins[1].call.arg].memberCount + 1
  /\ families = joins[2].before

\* a step of deleteUser(U) on an existing user, no store call rejecting
DeleteUserStep(u) ==
  /\ last'.op = "deleteUser" /\ last'.uid = u
  /\ OneCall(last')
  /\ users[u].exists

\* C4: deleteUser(U) for a user whose familyId is an existing family F removes U's
\* record and lowers F.memberCount by exactly 1, every other family's memberCount
\* unchanged; for a user with no family no memberCount changes.
C4_DeleteUserDecrements ==
  [][\A u \in UserIds : DeleteUserStep(u) =>
       LET F == users[u].familyId IN
       /\ ~users'[u].exists
       /\ Truthy(F) /\ families[F].exists =>
            families' = [families EXCEPT ![F].memberCount = @ - 1]
       /\ ~Truthy(F) => families' = families]_vars

C4_Witness ==
  /\ last.op = "deleteUser" /\ OneCall(last)
  /\ Truthy(last.prev) /\ families[last.prev].exists
  /\ ~users[last.uid].exists

\* C6: every user whose role is member or admin has no family or a familyId that
\* is the id of an existing Family record.
C6_FamilyExists ==
  \A u \in UserIds :
    users[u].exists /\ users[u].role \in {"member", "admin"} =>
      ~Truthy(users[u].familyId) \/ families[users[u].familyId].exists

\* the calls that have run to their end, and the users they moved into and out of F
Quiescent == \A u \in UserIds : calls[u].pc \in {"idle", "done", "threw"}
Joiners(F) == {u \in UserIds : /\ calls[u].pc = "done"
                               /\ calls[u].newFamilyId = F
                               /\ calls[u].prevFamilyId # F}
Leavers(F) == {u \in UserIds : /\ calls[u].pc = "done"
                               /\ calls[u].prevFamilyId = F
                               /\ calls[u].newFamilyId # F}

\* C5: whatever the interleaving of the store calls of updateUserFamily calls made by
\* distinct users, once all calls have completed every family's memberCount has
\* changed by the number of users who joined it minus the number who left it.
C5_NoLostUpdate ==
  Quiescent =>
    \A F \in 1..MaxFamilies :
      families[F].memberCount - base[F].memberCount =
        Cardinality(Joiners(F)) - Cardinality(Leavers(F))

\* two users have joined the same family, and its counter is two higher
C5_Witness ==
  /\ Quiescent
  /\ \E F \in 1..MaxFamilies :
       /\ Cardinality(Joiners(F)) >= 2
       /\ families[F].memberCount = base[F].memberCount + 2

\* the signed-in user a may moderate post p: super_admin, an admin of the post's
\* family, or the post's author
MayModerate(a, p) ==
  \/ users[a].role = "super_admin"
  \/ users[a].role = "admin" /\ users[a].familyId = posts[p].familyId
  \/ posts[p].authorId = a

\* C7: a post is deleted only on behalf of a user who is super_admin, an admin of
\* the post's family or the post's author; for any other user the post remains.
C7_DeleteAuthorized ==
  [][\A p \in PostIds :
       posts[p].exists /\ ~posts'[p].exists =>
         actor' \in UserIds /\ MayModerate(actor', p)]_vars

\* C8: once a family request's status is approved or rejected, no operation
\* changes it again.
C8_StatusTerminal ==
  [][\A r \in RequestIds :
       familyRequests[r].status \in {"approved", "rejected"} =>
         familyRequests'[r].status = familyRequests[r].status]_vars

\* a step of approveFamilyRequest(r) on an existing request whose status is st
ApproveStep(r, st) ==
  /\ last'.op = "approveFamilyRequest" /\ last'.arg = r
  /\ familyRequests[r].exists /\ familyRequests[r].status = st

\* exactly one Family record is added and no existing one is modified or removed
OneFamilyAdded ==
  \E f \in FamilyIds :
    /\ ~families[f].exists /\ families'[f].exists
    /\ \A g \in FamilyIds \ {f} : families'[g] = families[g]

\* C9: approveFamilyRequest on an existing pending request, when it does not throw,
\* sets the status to approved and adds exactly one Family; and whenever it leaves
\* the request approved, the Family has been created.
C9_ApproveCreatesFamily ==
  [][\A r \in RequestIds :
       ApproveStep(r, "pending") =>
         /\ last'.threw = "none" =>
              familyRequests'[r].status = "approved" /\ OneFamilyAdded
         /\ familyRequests'[r].status = "approved" => OneFamilyAdded]_vars

\* C10: approveFamilyRequest on a request that is approved already fails with an
\* invalid-state-transition error and creates no Family.
C10_SecondApproveFails ==
  [][\A r \in RequestIds :
       ApproveStep(r, "approved") =>
         last'.threw = "invalid-state" /\ families' = families]_vars

\* a step of reviewAdminRequest(r, decision, reviewer) on an existing request in
\* which no store call is rejected by the store itself
ReviewStep(r) ==
  /\ last'.op = "reviewAdminRequest" /\ last'.arg = r
  /\ adminRequests[r].exists
  /\ last'.threw # "store-error"

RolesUnchanged == \A u \in UserIds : users'[u].role = users[u].role

C12_ReReviewRejected ==
  [][\A r \in AdminRequestIds :
       /\ last'.op = "reviewAdminRequest" /\ last'.arg = r
       /\ adminRequests[r].status \in {"approved", "rejected"}
       => /\ last'.threw # "none"
          /\ adminRequests'[r] = adminRequests[r]
          /\ RolesUnchanged]_vars

\* a step of promoteToAdmin or demoteFromAdmin (op) on the existing user u, the
\* store call not rejected
RoleStep(op, u) ==
  /\ last'.op = op /\ last'.uid = u /\ OneCall(last')
  /\ users[u].exists

\* C13: on an existing user promoteToAdmin leaves role admin and demoteFromAdmin
\* leaves role member whatever the role was; demote after promote leaves member, and
\* the second of two equal calls changes nothing.
C13_PromoteDemote ==
  [][\A u \in UserIds :
       /\ RoleStep("promoteToAdmin", u) => users'[u].role = "admin"
       /\ RoleStep("demoteFromAdmin", u) => users'[u].role = "member"
       /\ /\ last.op = "promoteToAdmin" /\ last.uid = u /\ OneCall(last)
          /\ RoleStep("demoteFromAdmin", u)
          => users'[u].role = "member"
       /\ /\ last.op \in {"promoteToAdmin", "demoteFromAdmin"} /\ last.uid = u
          /\ OneCall(last) /\ RoleStep(last.op, u)
          => users'[u] = users[u]]_vars

\* a user who was super_admin or admin is a member after demoteFromAdmin
C13_Witness ==
  /\ last.op = "demoteFromAdmin" /\ OneCall(last)
  /\ users[last.uid].exists /\ users[last.uid].role = "member"

\* C19: initializeApp when the marker document exists fails with the
\* already-initialized error and creates no account, leaves the marker document and
\* every user profile as they are.
C19_AlreadyInitialized ==
  [][last'.op = "initializeApp" /\ config.exists =>
       /\ last'.threw \in {"already-initialized", "store-error"}
       /\ accounts' = accounts /\ config' = config /\ users' = users]_vars

\* a second setup was refused
C19_Witness ==
  /\ last.op = "initializeApp" /\ last.threw = "already-initialized"
  /\ config.exists /\ accounts # {}

\* the number of entries of an array equal to x
Occurrences(array, x) == Cardinality({i \in 1..Len(array) : array[i] = x})

\* C14: a likePost(P, U) on an existing post that completes, the first one or a
\* repeated one, leaves U in P.likes exactly once and the other entries as they were;
\* an unlikePost(P, U) that completes leaves no U in P.likes and the other entries as
\* they were, so with U not in P.likes it leaves P.likes unchanged.
C14_LikeIdempotent ==
  [][\A p \in PostIds, u \in UserIds :
       /\ (last'.op = "likePost" /\ last'.arg = p /\ last'.uid = u /\ ~last'.failed) =>
            /\ Occurrences(posts'[p].likes, u) = 1
            /\ Without(posts'[p].likes, u) = Without(posts[p].likes, u)
            /\ Includes(posts[p].likes, u) => posts'[p].likes = posts[p].likes
       /\ (last'.op = "unlikePost" /\ last'.arg = p /\ last'.uid = u /\ ~last'.failed) =>
            /\ posts'[p].likes = Without(posts[p].likes, u)
            /\ ~Includes(posts[p].likes, u) => posts'[p].likes = posts[p].likes]_vars

\* a second likePost(P, U) has completed on a post another user likes too
C14_Witness ==
  /\ last.op = "likePost" /\ ~last.failed /\ last.prev = 1
  /\ Len(posts[last.arg].likes) > 1

\* the step in which client c writes after client d has written, both operations on
\* the same array of the same post, each having read before the other wrote
SecondWrite(c, d) ==
  /\ c # d
  /\ edits[c].turn = 0 /\ edits'[c].turn > 0
  /\ edits[d].turn > 0
  /\ edits[c].postId = edits[d].postId
  /\ OnLikes(edits[c].op) = OnLikes(edits[d].op)
  /\ d \notin edits[c].seen /\ c \notin edits[d].seen

\* what the operation of an edit puts into its array, and what it takes out of it
Adds(e) == e.op \in {"likePost", "addComment"}
Entry(e) == IF e.op = "likePost" THEN e.who ELSE NewComment(e.who, e.commentId)
Removed(e) ==
  {i \in 1..Len(e.read) :
     IF e.op = "unlikePost" THEN e.read[i] = e.who ELSE e.read[i].id = e.commentId}
\* the change the writer of e made is not in the array: the entry it added is not
\* there, an entry it removed is there
ChangeAbsent(e, array) ==
  IF Adds(e) THEN ~Includes(array, Entry(e))
  ELSE \A i \in Removed(e) : Includes(array, e.read[i])
SameChange(e, f) == e.op = f.op /\ e.who = f.who /\ e.commentId = f.commentId
\* the array read for f already held the change of e
AlreadyIn(e, array) ==
  IF Adds(e) THEN Includes(array, Entry(e))
  ELSE \E i \in Removed(e) : ~Includes(array, e.read[i])

\* C15 as stated: after the second of two writes of operations that both read before
\* either wrote, the stored array is the one the second writer computed from what it
\* read, and the change of the first writer is absent from it.
C15_Original ==
  [][\A c, d \in Clients :
       SecondWrite(c, d) =>
         LET stored == Field(posts'[edits[c].postId], edits[c].op) IN
         /\ stored = Computed(edits[c].op, edits[c].read, edits[c].who, edits[c].commentId)
         /\ ChangeAbsent(edits[d], stored)]_vars

\* C15: after the second of two writes of operations that both read before either
\* wrote, the stored array is the one the second writer computed from what it read;
\* the change of the first writer is absent from it unless the second writer made the
\* same change or the array the second writer read already held that change.
C15_LastWriterWins ==
  [][\A c, d \in Clients :
       SecondWrite(c, d) =>
         LET stored == Field(posts'[edits[c].postId], edits[c].op) IN
         /\ stored = Computed(edits[c].op, edits[c].read, edits[c].who, edits[c].commentId)
         /\ \/ ChangeAbsent(edits[d], stored)
            \/ SameChange(edits[d], edits[c])
            \/ AlreadyIn(edits[d], edits[c].read)]_vars

\* two operations have written the same array of a post, each having read before the
\* other wrote, and the change of the first writer is gone
C15_Witness ==
  \E c, d \in Clients :
    /\ c # d
    /\ edits[c].turn > edits[d].turn /\ edits[d].turn > 0
    /\ edits[c].postId = edits[d].postId
    /\ OnLikes(edits[c].op) = OnLikes(edits[d].op)
    /\ d \notin edits[c].seen /\ c \notin edits[d].seen
    /\ edits[d].wrote # edits[d].read
    /\ ~SameChange(edits[d], edits[c])
    /\ Field(posts[edits[c].postId], edits[c].op) = edits[c].wrote
    /\ ChangeAbsent(edits[d], edits[c].wrote)

\* C16: deleteMedia(M) on an existing media record, its getDoc and deleteDoc not
\* rejected, completes without error and removes the record; the blob is gone when
\* deleteObject succeeded, and when deleteObject was rejected the blobs are as they
\* were.
C16_BlobFailureTolerated ==
  [][\A m \in MediaIds :
       (/\ last'.op = "deleteMedia" /\ last'.arg = m
        /\ media[m].exists /\ last'.prev \notin {1, 3}) =>
         /\ last'.threw = "none"
         /\ ~media'[m].exists
         /\ last'.prev = 0 => m \notin blobs'
         /\ last'.prev = 2 => blobs' = blobs /\ last'.failed]_vars

\* a deleteMedia whose deleteObject was rejected while the blob was there has
\* completed and removed the record
C16_Witness ==
  /\ last.op = "deleteMedia" /\ last.prev = 2 /\ last.threw = "none"
  /\ ~media[last.arg].exists
  /\ last.arg \in blobs

\* a step of updateUserFamily(u, new) for an existing user in which the store rejected
\* the call numbered k (3 the decrement of the previous family, 4 the increment of the
\* new one)
MoveRejecting(u, k) ==
  /\ last'.op = "updateUserFamily" /\ last'.uid = u /\ last'.rejected = k
  /\ users[u].exists

\* C17: an updateUserFamily whose decrement of the previous family or increment of the
\* new family is rejected completes without error and leaves the user's familyId at
\* the new value; with the decrement rejected the increment of an existing new family
\* and the notification are still made, with the increment rejected the decrement of
\* an existing previous family and the notification are still made.
C17_CounterFailureTolerated ==
  [][\A u \in UserIds :
       LET prev == users[u].familyId
           new == last'.arg
           joining == Truthy(new) /\ prev # new
           leaving == Truthy(prev) /\ prev # new
       IN
       /\ (MoveRejecting(u, 3) \/ MoveRejecting(u, 4)) =>
            /\ last'.threw = "none"
            /\ users'[u].familyId = new
            /\ joining => notifications' = notifications + 1
       /\ (MoveRejecting(u, 3) /\ joining /\ families[new].exists) =>
            families'[new].memberCount = families[new].memberCount + 1
       /\ (MoveRejecting(u, 4) /\ leaving /\ families[prev].exists) =>
            families'[prev].memberCount = families[prev].memberCount - 1]_vars

\* a move between two existing families has completed with its decrement rejected:
\* the user is in the new family and the increment was made
C17_Witness ==
  /\ last.op = "updateUserFamily" /\ last.rejected = 3 /\ last.threw = "none"
  /\ Truthy(last.prev) /\ Truthy(last.arg) /\ last.prev # last.arg
  /\ families[last.prev].exists /\ families[last.arg].exists
  /\ users[last.uid].familyId = last.arg
  /\ last.failed

\* a step of op for user u
UserStep(op, u) == last'.op = op /\ last'.uid = u

\* C18 as stated, for the operations on users: updateUserFamily and deleteUser on a
\* missing user, and updateUserFamily to a missing family, end in a not-found error
\* and change no user, family or notification.
C18_NotFound ==
  [][\A u \in UserIds :
       /\ ((UserStep("updateUserFamily", u) \/ UserStep("deleteUser", u))
           /\ ~users[u].exists) =>
            /\ last'.threw = "not-found"
            /\ UNCHANGED <<users, families, notifications>>
       /\ (/\ UserStep("updateUserFamily", u) /\ users[u].exists
           /\ Truthy(last'.arg) /\ ~families[last'.arg].exists) =>
            /\ last'.threw = "not-found"
            /\ UNCHANGED <<users, families, notifications>>]_vars

\* C20: the member whose demotion the dashboard last requested, and the member it last
\* passed to removeMemberFromFamily, is never the signed-in user.
C20_NoSelfAction ==
  last.op \in {"handleDemoteUser", "updateUserFamily"} => last.uid # actor

\* an admin whose own row is on display has removed another member of the family
C20_Witness ==
  /\ last.op = "updateUserFamily" /\ last.threw = "none"
  /\ UserData(actor).role = "admin"
  /\ members[actor].shown
  /\ last.uid # actor

\* the family f has no room for another admin
LimitReached(f) == ~checkAdminLimit(users, f, maxAdmins)

C22_SeedsKept ==
  [][last'.op = "initializeFamilies" =>
       /\ users' = users
       /\ \A f \in SeedIds :
            families[f].exists => families'[f].memberCount = families[f].memberCount]_vars

\* C23 as stated: while no store call has rejected, the memberCount of every family
\* is at least 0.
C23_NonNegative ==
  clean => \A f \in Existing(families) : families[f].memberCount >= 0

\* C24 as stated: once the calls of the clients, all for one user, have completed,
\* every family's memberCount is the number of users assigned to it (it was so before
\* the calls, so it has changed by the net change of that number).
C24_SameUserCounted ==
  (\A c \in Clients : calls[c].pc = "done") =>
    \A F \in 1..MaxFamilies : families[F].memberCount = MembersOf(users, F)

\* C25 as stated: a step that is not initializeApp and leaves user u in place neither
\* takes the role super_admin from u nor gives it to u.
C25_SuperAdminKept ==
  [][\A u \in UserIds :
       (last'.op # "initializeApp" /\ users'[u].exists) =>
         (users[u].role = "super_admin" <=> users'[u].role = "super_admin")]_vars

\* the profiles with role super_admin
SuperAdmins(us) == {u \in UserIds : us[u].exists /\ us[u].role = "super_admin"}
\* the marker document, when it exists, names the one super_admin profile
MarkerMatches(cfg, us) == cfg.exists => SuperAdmins(us) = {cfg.superAdminId}

\* C26 as stated: a call of initializeApp, whichever store call of it rejects, started
\* where the marker (if any) names the one super_admin profile, ends in such a state.
C26_MarkerMatches ==
  [][last'.op = "initializeApp" /\ MarkerMatches(config, users)
       => MarkerMatches(config', users')]_vars

\* C28 as stated: a call of reviewAdminRequest with decision approved on a pending
\* request, however it ends, leaves the request approved exactly when it made the
\* referenced user an admin.
C28_AllOrNothing ==
  [][\A r \in AdminRequestIds :
       ( /\ last'.op = "reviewAdminRequest" /\ last'.arg = r
         /\ last'.decision = "approved"
         /\ adminRequests[r].exists /\ adminRequests[r].status = "pending" )
       => ( adminRequests'[r].status = "approved"
            <=> ( /\ last'.threw = "none"
                  /\ users'[adminRequests[r].userId].exists
                  /\ users'[adminRequests[r].userId].role = "admin" ) )]_vars

\* C27: a post made by createPost and changed only by likePost and unlikePost, their
\* store calls interleaved in any way, never holds the same user id twice in likes.
C27_NoDuplicateLikes ==
  \A p \in PostIds, u \in Likers : Occurrences(posts[p].likes, u) <= 1

\* two likes of one post by the same user, both having read the empty array before
\* either wrote, have both written
C27_Witness ==
  \E c1, c2 \in Clients :
    /\ c1 # c2
    /\ \A c \in {c1, c2} :
         /\ edits[c].op = "likePost" /\ edits[c].pc = "done"
         /\ edits[c].read = <<>>
    /\ edits[c1].postId = edits[c2].postId /\ edits[c1].who = edits[c2].who
    /\ posts[edits[c1].postId].likes = <<edits[c1].who>>

\* the positions of the comments whose id is not commentId, and the i-th of them
Kept(comments, commentId) == {j \in 1..Len(comments) : comments[j].id # commentId}
NthOf(S, i) == CHOOSE j \in S : Cardinality({k \in S : k <= j}) = i
\* after is before without the comments with the id, the others in their order
RemovedAll(before, after, commentId) ==
  /\ Len(after) = Cardinality(Kept(before, commentId))
  /\ \A i \in 1..Len(after) : after[i] = before[NthOf(Kept(before, commentId), i)]
\* after is before with one comment of the user with the id at the end
AppendedLast(before, after, userId, commentId) ==
  /\ Len(after) = Len(before) + 1
  /\ SubSeq(after, 1, Len(before)) = before
  /\ after[Len(after)].id = commentId /\ after[Len(after)].userId = userId

C29_OneSubscription ==
  /\ Cardinality(Listening(session)) <= 1
  /\ \A h \in Listening(session) : session.subs[h] = session.currentUser
  /\ session.currentUser = NullId => session.userData.id = NullId

\* user v has taken the place of user u: the one subscription is v's while userData is
\* still the profile of u that the cancelled subscription delivered
C29_Witness ==
  /\ session.currentUser \in UserIds
  /\ session.userData.id \in UserIds \ {session.currentUser}
  /\ \E h \in Handles : Listening(session) = {h} /\ session.subs[h] = session.currentUser

====
